---- MODULE Spec2Model ----
(***************************************************************************)
(* The low-level input pipeline of hex-engine (LowLevelMouse): raw mouse   *)
(* and touch events are buffered in three pending slots and flushed once   *)
(* per update tick; a process-wide first-click gate runs queued handlers   *)
(* once.  Callbacks of the user (listeners, first-click handlers) are      *)
(* arbitrary code: what one of them does when invoked (return, throw,      *)
(* dispatch a raw event on the canvas, register a handler) is an input of  *)
(* the step that invokes it.                                               *)
(***************************************************************************)
EXTENDS Integers, Sequences, FiniteSets, TLC

VARIABLES
    firstClickHasHappened,      \* module-level latch
    pendingFirstClickHandlers,  \* module-level queue of handler ids
    comp,                       \* per instance: the closure state of LowLevelMouse()
    canvas,                     \* per event type: the handlers attached, in order
    enabled,                    \* per instance: the useEnableDisable state
    log,                        \* history: what the last step invoked, in order
    fcCalls,                    \* history: invocations of each first-click handler
    late,                       \* history: handlers registered with the latch set
    flagObjects,                \* the objects useFirstClick has returned
    latest,                     \* history: last raw mouse event delivered, per slot
    primary,                    \* history: per instance, the touch point it follows
    audio,                      \* the fields of an Audio component, and its history
    animation                   \* the closure state of Animation(), once created

vars == <<firstClickHasHappened, pendingFirstClickHandlers, comp, canvas, enabled,
          log, fcCalls, late, flagObjects, latest, primary, audio, animation>>

-----------------------------------------------------------------------------
(* Bounds and the environment *)

\* The LowLevelMouse instances of the process (they share one canvas).
Instances == {1, 2}

\* Callbacks registered per listener set of an instance.
MaxListeners == 2

\* useFirstClick registrations in the process.
MaxHandlers == 3

\* An optional parameter that was not passed (buttons?: number, button?: number).
Absent == -1

CallbackSets == {"moveCallbacks", "downCallbacks", "upCallbacks",
                 "outCallbacks", "overCallbacks"}

Slots == {"pendingMove", "pendingDown", "pendingUp"}

MouseTypes == {"mousemove", "mousedown", "mouseup", "mouseover", "mouseout"}

TouchTypes == {"touchstart", "touchmove", "touchend"}

EventTypes == MouseTypes \cup TouchTypes

\* Raw mouse events the browser delivers (clientX, clientY, buttons, button).
MouseEvents ==
    { [clientX |-> 3, clientY |-> 4, buttons |-> 0, button |-> 0],
      [clientX |-> 5, clientY |-> 8, buttons |-> 3, button |-> 2] }

\* Touch points (Touch.identifier, Touch.clientX, Touch.clientY).
Touch1 == [identifier |-> 1, clientX |-> 3, clientY |-> 4]

Touch2 == [identifier |-> 2, clientX |-> 5, clientY |-> 8]

\* Raw touch events: the active touch points and the ones that changed.
TouchEvents ==
    { [touches |-> <<>>, changedTouches |-> <<>>],
      [touches |-> <<Touch1>>, changedTouches |-> <<Touch1>>],
      [touches |-> <<Touch2, Touch1>>, changedTouches |-> <<Touch1>>],
      [touches |-> <<>>, changedTouches |-> <<Touch2>>] }

\* Touch events of two fingers, the first of them in contact throughout: the
\* second finger comes down or moves, and the second finger is lifted.
TwoFingerEvents ==
    TouchEvents \cup
    { [touches |-> <<Touch1, Touch2>>, changedTouches |-> <<Touch2>>],
      [touches |-> <<Touch1>>, changedTouches |-> <<Touch2>>],
      [touches |-> <<>>, changedTouches |-> <<Touch1>>] }

\* canvas.getBoundingClientRect() and canvas.width / canvas.height.
getBoundingClientRect == [left |-> 1, top |-> 2, width |-> 8, height |-> 8]

canvasSize == [width |-> 4, height |-> 4]

\* transforms.matrixForWorldPosition(): a 2D affine matrix (a b c d e f).
matrixForWorldPosition == [a |-> 1, b |-> 0, c |-> 0, d |-> 1, e |-> 1, f |-> 0]

-----------------------------------------------------------------------------
(* Vector (Point) and the matrix operations translatePos uses *)

Vector(x, y) == [x |-> x, y |-> y]

\* Point.mutateInto: the receiver after the call.
mutateInto(this, other) == [this EXCEPT !.x = other.x, !.y = other.y]

\* Point.subtractMutate with a Point operand: the receiver after the call.
subtractMutate(this, other) == [this EXCEPT !.x = this.x - other.x, !.y = this.y - other.y]

\* The inverse of an affine matrix whose determinant is 1 or -1.
inverse(m) ==
    LET det == m.a * m.d - m.b * m.c
    IN  [a |-> m.d \div det, b |-> (0 - m.b) \div det,
         c |-> (0 - m.c) \div det, d |-> m.a \div det,
         e |-> (m.c * m.f - m.d * m.e) \div det,
         f |-> (m.b * m.e - m.a * m.f) \div det]

transformPoint(m, p) == Vector(m.a * p.x + m.c * p.y + m.e, m.b * p.x + m.d * p.y + m.f)

\* A variant of translatePos that divides by the scale before it subtracts the
\* offset of the rectangle.
translatePosIn_ScaleFirst(rect, size, m, clientX, clientY) ==
    LET scaleX == rect.width \div size.width
        scaleY == rect.height \div size.height
        x == (clientX \div scaleX) - rect.left
        y == (clientY \div scaleY) - rect.top
    IN  transformPoint(inverse(m), Vector(x, y))

\* A variant of translatePos that does not subtract the offset of the rectangle.
translatePosIn_NoOffset(rect, size, m, clientX, clientY) ==
    LET scaleX == rect.width \div size.width
        scaleY == rect.height \div size.height
    IN  transformPoint(inverse(m), Vector(clientX \div scaleX, clientY \div scaleY))

\* translatePos for a bounding rectangle, a canvas size and a world matrix;
\* the inputs are chosen so that the divisions are exact.
translatePosIn(rect, size, m, clientX, clientY) ==
    LET scaleX == rect.width \div size.width
        scaleY == rect.height \div size.height
        x == (clientX - rect.left) \div scaleX
        y == (clientY - rect.top) \div scaleY
        untransformedPoint == Vector(x, y)
    IN  transformPoint(inverse(m), untransformedPoint)

translatePos(clientX, clientY) ==
    translatePosIn(getBoundingClientRect, canvasSize, matrixForWorldPosition,
                   clientX, clientY)

-----------------------------------------------------------------------------
(* Point objects: a heap of Points, a reference being a position in it.  A   *)
(* method takes the heap, the receiver and its argument, and gives the heap *)
(* after the call and the reference it returns.  An argument of type        *)
(* Point | number is [number |-> n] or [ref |-> r].                         *)

\* typeof other === "number"
IsNumber(other) == "number" \in DOMAIN other

\* new Point(x, y)
NewPoint(h, x, y) == [heap |-> Append(h, Vector(x, y)), ret |-> Len(h) + 1]

\* return this
ReturnThis(h, this) == [heap |-> h, ret |-> this]

Point_opposite(h, this) == NewPoint(h, 0 - h[this].x, 0 - h[this].y)

Point_oppositeMutate(h, this) ==
    LET h1 == [h EXCEPT ![this].x = 0 - @]
        h2 == [h1 EXCEPT ![this].y = 0 - @]
    IN  ReturnThis(h2, this)

\* A variant of add that adds in place and returns the receiver.
Point_add_InPlace(h, this, other) ==
    IF IsNumber(other)
    THEN ReturnThis([h EXCEPT ![this] = Vector(@.x + other.number, @.y + other.number)], this)
    ELSE ReturnThis([h EXCEPT ![this] = Vector(@.x + h[other.ref].x, @.y + h[other.ref].y)],
                    this)

Point_add(h, this, other) ==
    IF IsNumber(other)
    THEN NewPoint(h, h[this].x + other.number, h[this].y + other.number)
    ELSE NewPoint(h, h[this].x + h[other.ref].x, h[this].y + h[other.ref].y)

\* The two assignments run one after the other: the second reads the argument
\* after the first has written the receiver.
Point_addMutate(h, this, other) ==
    IF IsNumber(other)
    THEN LET h1 == [h EXCEPT ![this].x = @ + other.number]
             h2 == [h1 EXCEPT ![this].y = @ + other.number]
         IN  ReturnThis(h2, this)
    ELSE LET h1 == [h EXCEPT ![this].x = @ + h[other.ref].x]
             h2 == [h1 EXCEPT ![this].y = @ + h1[other.ref].y]
         IN  ReturnThis(h2, this)

Point_addX(h, this, amount) == NewPoint(h, h[this].x + amount, h[this].y)

Point_addXMutate(h, this, amount) == ReturnThis([h EXCEPT ![this].x = @ + amount], this)

Point_addY(h, this, amount) == NewPoint(h, h[this].x, h[this].y + amount)

Point_addYMutate(h, this, amount) == ReturnThis([h EXCEPT ![this].y = @ + amount], this)

Point_subtract(h, this, other) ==
    IF IsNumber(other)
    THEN NewPoint(h, h[this].x - other.number, h[this].y - other.number)
    ELSE NewPoint(h, h[this].x - h[other.ref].x, h[this].y - h[other.ref].y)

\* The two assignments run one after the other: the second reads the argument
\* after the first has written the receiver.
Point_subtractMutate(h, this, other) ==
    IF IsNumber(other)
    THEN LET h1 == [h EXCEPT ![this].x = @ - other.number]
             h2 == [h1 EXCEPT ![this].y = @ - other.number]
         IN  ReturnThis(h2, this)
    ELSE LET h1 == [h EXCEPT ![this].x = @ - h[other.ref].x]
             h2 == [h1 EXCEPT ![this].y = @ - h1[other.ref].y]
         IN  ReturnThis(h2, this)

Point_subtractX(h, this, amount) == NewPoint(h, h[this].x - amount, h[this].y)

Point_subtractXMutate(h, this, amount) == ReturnThis([h EXCEPT ![this].x = @ - amount], this)

Point_subtractY(h, this, amount) == NewPoint(h, h[this].x, h[this].y - amount)

Point_subtractYMutate(h, this, amount) == ReturnThis([h EXCEPT ![this].y = @ - amount], this)

Point_multiply(h, this, other) ==
    IF IsNumber(other)
    THEN NewPoint(h, h[this].x * other.number, h[this].y * other.number)
    ELSE NewPoint(h, h[this].x * h[other.ref].x, h[this].y * h[other.ref].y)

\* The two assignments run one after the other: the second reads the argument
\* after the first has written the receiver.
Point_multiplyMutate(h, this, other) ==
    IF IsNumber(other)
    THEN LET h1 == [h EXCEPT ![this].x = @ * other.number]
             h2 == [h1 EXCEPT ![this].y = @ * other.number]
         IN  ReturnThis(h2, this)
    ELSE LET h1 == [h EXCEPT ![this].x = @ * h[other.ref].x]
             h2 == [h1 EXCEPT ![this].y = @ * h1[other.ref].y]
         IN  ReturnThis(h2, this)

Point_multiplyX(h, this, amount) == NewPoint(h, h[this].x * amount, h[this].y)

Point_multiplyXMutate(h, this, amount) == ReturnThis([h EXCEPT ![this].x = @ * amount], this)

Point_multiplyY(h, this, amount) == NewPoint(h, h[this].x, h[this].y * amount)

Point_multiplyYMutate(h, this, amount) == ReturnThis([h EXCEPT ![this].y = @ * amount], this)

\* The arithmetic methods that have a *Mutate form.
PointMethods ==
    {"opposite", "add", "addX", "addY", "subtract", "subtractX", "subtractY",
     "multiply", "multiplyX", "multiplyY"}

\* point.method(other), for the non-mutating methods.
CallMethod(method, h, this, other) ==
    CASE method = "opposite"  -> Point_opposite(h, this)
      [] method = "add"       -> Point_add(h, this, other)
      [] method = "addX"      -> Point_addX(h, this, other.number)
      [] method = "addY"      -> Point_addY(h, this, other.number)
      [] method = "subtract"  -> Point_subtract(h, this, other)
      [] method = "subtractX" -> Point_subtractX(h, this, other.number)
      [] method = "subtractY" -> Point_subtractY(h, this, other.number)
      [] method = "multiply"  -> Point_multiply(h, this, other)
      [] method = "multiplyX" -> Point_multiplyX(h, this, other.number)
      [] method = "multiplyY" -> Point_multiplyY(h, this, other.number)

\* point.methodMutate(other).
CallMutate(method, h, this, other) ==
    CASE method = "opposite"  -> Point_oppositeMutate(h, this)
      [] method = "add"       -> Point_addMutate(h, this, other)
      [] method = "addX"      -> Point_addXMutate(h, this, other.number)
      [] method = "addY"      -> Point_addYMutate(h, this, other.number)
      [] method = "subtract"  -> Point_subtractMutate(h, this, other)
      [] method = "subtractX" -> Point_subtractXMutate(h, this, other.number)
      [] method = "subtractY" -> Point_subtractYMutate(h, this, other.number)
      [] method = "multiply"  -> Point_multiplyMutate(h, this, other)
      [] method = "multiplyX" -> Point_multiplyXMutate(h, this, other.number)
      [] method = "multiplyY" -> Point_multiplyYMutate(h, this, other.number)

-----------------------------------------------------------------------------
(* Point.magnitude, Point.angle and Point.rotate in exact arithmetic.  An   *)
(* angle is given by its cosine and sine as fractions cos/den and sin/den;  *)
(* the Points and angles used are such that magnitudes are integers and the *)
(* divisions are exact.                                                     *)

Abs(n) == IF n < 0 THEN 0 - n ELSE n

\* get magnitude(): Math.sqrt(Math.pow(0 - this.x, 2) + Math.pow(0 - this.y, 2))
magnitude(this) ==
    LET sq == (0 - this.x) * (0 - this.x) + (0 - this.y) * (0 - this.y)
    IN  CHOOSE m \in 0..(Abs(this.x) + Abs(this.y)) : m * m = sq

\* get angle(): Math.atan2(-this.y, this.x); atan2(-0, 0) is the angle 0.
angle(this) ==
    IF this.x = 0 /\ this.y = 0 THEN [cos |-> 1, sin |-> 0, den |-> 1]
    ELSE [cos |-> this.x, sin |-> 0 - this.y, den |-> magnitude(this)]

\* The sum of two angles (the radians a += adds).
AddRadians(a, b) ==
    [cos |-> a.cos * b.cos - a.sin * b.sin, sin |-> a.sin * b.cos + a.cos * b.sin,
     den |-> a.den * b.den]

\* A variant of the angle setter that does not invert the y component.
setAngle_NoInversion(this, newValue) ==
    LET x == (magnitude(this) * newValue.cos) \div newValue.den
        y == (magnitude(this) * newValue.sin) \div newValue.den
    IN  [this EXCEPT !.x = x, !.y = y]

\* set angle(newValue): the receiver after the assignment.
setAngle(this, newValue) ==
    LET x == (magnitude(this) * newValue.cos) \div newValue.den
        y == 0 - ((magnitude(this) * newValue.sin) \div newValue.den)
    IN  [this EXCEPT !.x = x, !.y = y]

clone(this) == Vector(this.x, this.y)

\* rotate(radians): the Point returned.
rotate(this, radians) ==
    LET nextPoint == clone(this)
    IN  setAngle(nextPoint, AddRadians(angle(nextPoint), radians))

\* rotateMutate(radians): the receiver after the call.
rotateMutate(this, radians) == setAngle(this, AddRadians(angle(this), radians))

-----------------------------------------------------------------------------
(* The state one handler runs on: the variables, and whether it has thrown *)

Cur ==
    [firstClickHasHappened |-> firstClickHasHappened,
     pendingFirstClickHandlers |-> pendingFirstClickHandlers,
     comp |-> comp, canvas |-> canvas, log |-> <<>>, fcCalls |-> fcCalls,
     late |-> late, flagObjects |-> flagObjects, latest |-> latest,
     primary |-> primary, audio |-> audio, animation |-> animation,
     thrown |-> FALSE, inHandler |-> FALSE]

\* What the callbacks of one step do.  A tick fault names one listener
\* invocation (set, idx) that throws or dispatches a raw mouse event on the
\* canvas; a drain fault names the position in the first-click queue of the
\* handler that throws or calls useFirstClick again.
NoFault == [set |-> "none", idx |-> 0, kind |-> "return", ev |-> <<>>]

TickFaults ==
    {NoFault} \cup
    [set : {"moveCallbacks", "downCallbacks", "upCallbacks"}, idx : 1..MaxListeners,
     kind : {"throw"}, ev : {<<>>}] \cup
    [set : {"moveCallbacks", "downCallbacks", "upCallbacks"}, idx : {1},
     kind : {"mousemove", "mousedown", "mouseup"},
     ev : {<<e>> : e \in {m \in MouseEvents : m.buttons = 0}}]

NoDrainFault == [idx |-> 0, kind |-> "return"]

DrainFaults == {NoDrainFault} \cup [idx : 1..2, kind : {"throw", "useFirstClick"}]

\* One record of the log.
Invocation(op, inst, set, idx) ==
    [op |-> op, inst |-> inst, set |-> set, idx |-> idx, slot |-> "none",
     u |-> <<>>, before |-> Vector(0, 0), pos |-> Vector(0, 0),
     delta |-> Vector(0, 0), latest |-> <<>>, stale |-> FALSE, inHandler |-> FALSE]

-----------------------------------------------------------------------------
(* The first-click gate *)

\* The object useFirstClick returns: a getter on the module-level latch.
FlagObject(s) == [getter |-> TRUE, value |-> s.firstClickHasHappened]

\* Reading obj.firstClickHasHappened.
ReadFlag(obj) == IF obj.getter THEN firstClickHasHappened ELSE obj.value

\* useFirstClick(handler): the handler gets the next id.
useFirstClick(s) ==
    LET h == Len(s.flagObjects) + 1
    IN  [s EXCEPT !.pendingFirstClickHandlers = Append(@, h),
                  !.flagObjects = Append(@, FlagObject(s)),
                  !.late = IF s.firstClickHasHappened THEN @ \cup {h} ELSE @]

\* handler() for the k-th element of the queue.
callFirstClickHandler(s, k, fault) ==
    LET h  == s.pendingFirstClickHandlers[k]
        s1 == [s EXCEPT !.fcCalls[h] = @ + 1,
                        !.log = Append(@, Invocation("firstClick", 0, "none", h))]
    IN  IF fault.idx /= k THEN s1
        ELSE IF fault.kind = "throw" THEN [s1 EXCEPT !.thrown = TRUE]
        ELSE IF fault.kind = "useFirstClick" /\ Len(s1.flagObjects) < MaxHandlers
             THEN useFirstClick(s1)
        ELSE s1

\* A variant of the loop bound that reads the length of the queue at each step.
forEachBound_Live(s, len, k) == k <= Len(s.pendingFirstClickHandlers)

\* Array.prototype.forEach visits the indices below the length the array had
\* when the call began.
forEachBound(s, len, k) == k <= len

RECURSIVE forEachHandler(_, _, _, _)
forEachHandler(s, len, k, fault) ==
    IF s.thrown \/ ~forEachBound(s, len, k) THEN s
    ELSE forEachHandler(callFirstClickHandler(s, k, fault), len, k + 1, fault)

\* A variant of the gate that sets the latch after the handlers have run.
firstClickGate_SetAfter(s, fault) ==
    IF ~s.firstClickHasHappened
    THEN LET s2 == forEachHandler(s, Len(s.pendingFirstClickHandlers), 1, fault)
         IN  IF s2.thrown THEN s2
             ELSE [s2 EXCEPT !.firstClickHasHappened = TRUE,
                             !.pendingFirstClickHandlers = <<>>]
    ELSE s

\* if (!firstClickHasHappened) { ... } of handleMouseDown and handleTouchStart.
firstClickGate(s, fault) ==
    IF ~s.firstClickHasHappened
    THEN LET s1 == [s EXCEPT !.firstClickHasHappened = TRUE]
             s2 == forEachHandler(s1, Len(s1.pendingFirstClickHandlers), 1, fault)
         IN  IF s2.thrown THEN s2
             ELSE [s2 EXCEPT !.pendingFirstClickHandlers = <<>>]
    ELSE s

-----------------------------------------------------------------------------
(* LowLevelMouse(): the closure state of one instance and its handlers *)

\* The state after LowLevelMouse() has run; a callback set holds the number of
\* callbacks added (each add wraps its callback in a new function, so no two
\* are the same element, and the set iterates in insertion order).
NewComponent ==
    [storage |-> [c \in CallbackSets |-> 0],
     lastPos |-> Vector(0, 0),
     event |-> [pos |-> Vector(0, 0), delta |-> Vector(0, 0),
                buttons |-> [left |-> FALSE, right |-> FALSE, middle |-> FALSE,
                             mouse4 |-> FALSE, mouse5 |-> FALSE]],
     pendingMove |-> <<>>, pendingDown |-> <<>>, pendingUp |-> <<>>,
     isTouching |-> FALSE,
     bound |-> FALSE]

\* buttons & mask, for mask a power of two.
BitAnd(buttons, mask) == (buttons \div mask) % 2 = 1

\* A variant of updateEvent that leaves lastPos as it was.
updateEvent_KeepLastPos(c, u) ==
    LET buttons == IF u.buttons = Absent THEN 0 ELSE u.buttons
        pos     == translatePos(u.clientX, u.clientY)
        delta   == subtractMutate(mutateInto(c.event.delta, pos), c.lastPos)
    IN  [c EXCEPT !.event = [pos |-> pos, delta |-> delta,
                             buttons |-> [left   |-> BitAnd(buttons, 1) \/ u.button = 0,
                                          right  |-> BitAnd(buttons, 2) \/ u.button = 2,
                                          middle |-> BitAnd(buttons, 4) \/ u.button = 1,
                                          mouse4 |-> BitAnd(buttons, 8) \/ u.button = 3,
                                          mouse5 |-> BitAnd(buttons, 16) \/ u.button = 4]]]

\* A variant of updateEvent that only ever sets button flags.
updateEvent_KeepFlags(c, u) ==
    LET buttons == IF u.buttons = Absent THEN 0 ELSE u.buttons
        pos     == translatePos(u.clientX, u.clientY)
        delta   == subtractMutate(mutateInto(c.event.delta, pos), c.lastPos)
        old     == c.event.buttons
    IN  [c EXCEPT !.event = [pos |-> pos, delta |-> delta,
                             buttons |-> [left   |-> old.left \/ BitAnd(buttons, 1) \/ u.button = 0,
                                          right  |-> old.right \/ BitAnd(buttons, 2) \/ u.button = 2,
                                          middle |-> old.middle \/ BitAnd(buttons, 4) \/ u.button = 1,
                                          mouse4 |-> old.mouse4 \/ BitAnd(buttons, 8) \/ u.button = 3,
                                          mouse5 |-> old.mouse5 \/ BitAnd(buttons, 16) \/ u.button = 4]],
                  !.lastPos = mutateInto(@, pos)]

updateEvent(c, u) ==
    LET buttons == IF u.buttons = Absent THEN 0 ELSE u.buttons
        pos     == translatePos(u.clientX, u.clientY)
        delta   == subtractMutate(mutateInto(c.event.delta, pos), c.lastPos)
    IN  [c EXCEPT !.event = [pos |-> pos, delta |-> delta,
                             buttons |-> [left   |-> BitAnd(buttons, 1) \/ u.button = 0,
                                          right  |-> BitAnd(buttons, 2) \/ u.button = 2,
                                          middle |-> BitAnd(buttons, 4) \/ u.button = 1,
                                          mouse4 |-> BitAnd(buttons, 8) \/ u.button = 3,
                                          mouse5 |-> BitAnd(buttons, 16) \/ u.button = 4]],
                  !.lastPos = mutateInto(@, pos)]

\* A pending closure: the parameters it captured and the set it triggers.
\* (stale is history: whether a disable has found the closure in its slot.)
Closure(clientX, clientY, buttons, button, callbacks) ==
    <<[clientX |-> clientX, clientY |-> clientY, buttons |-> buttons,
       button |-> button, callbacks |-> callbacks, stale |-> FALSE]>>

\* A variant of handleMouseMove that keeps a closure already pending.
handleMouseMove_KeepFirst(s, i, ev) ==
    IF s.comp[i].pendingMove /= <<>> THEN s
    ELSE [s EXCEPT !.comp[i].pendingMove =
             Closure(ev.clientX, ev.clientY, ev.buttons, Absent, "moveCallbacks")]

handleMouseMove(s, i, ev) ==
    [s EXCEPT !.comp[i].pendingMove =
        Closure(ev.clientX, ev.clientY, ev.buttons, Absent, "moveCallbacks")]

handleMouseDown(s, i, ev, fault) ==
    LET s1 == firstClickGate(s, fault)
    IN  IF s1.thrown THEN s1
        ELSE [s1 EXCEPT !.comp[i].pendingDown =
                 Closure(ev.clientX, ev.clientY, Absent, ev.button, "downCallbacks")]

handleMouseUp(s, i, ev) ==
    [s EXCEPT !.comp[i].pendingUp =
        Closure(ev.clientX, ev.clientY, Absent, ev.button, "upCallbacks")]

handleMouseOut(s, i, ev) ==
    [s EXCEPT !.comp[i].pendingMove =
        Closure(ev.clientX, ev.clientY, ev.buttons, Absent, "outCallbacks")]

handleMouseOver(s, i, ev) ==
    [s EXCEPT !.comp[i].pendingMove =
        Closure(ev.clientX, ev.clientY, ev.buttons, Absent, "overCallbacks")]

\* A variant of handleTouchStart without the isTouching guard.
handleTouchStart_NoGuard(s, i, ev, fault) ==
    LET s1 == firstClickGate(s, fault)
        touches == ev.touches
    IN  IF s1.thrown THEN s1
        ELSE IF Len(touches) < 1 THEN s1
        ELSE [s1 EXCEPT !.comp[i].pendingDown =
                 Closure(touches[1].clientX, touches[1].clientY, Absent, 0,
                         "downCallbacks"),
                        !.comp[i].isTouching = TRUE,
                        !.primary[i] = <<touches[1].identifier>>]

handleTouchStart(s, i, ev, fault) ==
    IF s.comp[i].isTouching THEN s
    ELSE LET s1 == firstClickGate(s, fault)
             touches == ev.touches
         IN  IF s1.thrown THEN s1
             ELSE IF Len(touches) < 1 THEN s1
             ELSE [s1 EXCEPT !.comp[i].pendingDown =
                      Closure(touches[1].clientX, touches[1].clientY, Absent, 0,
                              "downCallbacks"),
                             !.comp[i].isTouching = TRUE,
                             !.primary[i] = <<touches[1].identifier>>]

\* A variant of handleTouchMove that updates the snapshot and calls the move
\* listeners at once instead of leaving a closure in the slot.
handleTouchMove_Immediate(s, i, ev) ==
    LET touches == ev.touches
    IN  IF Len(touches) < 1 THEN s
        ELSE LET u  == Closure(touches[1].clientX, touches[1].clientY, Absent, 0,
                               "moveCallbacks")[1]
                 c2 == updateEvent(s.comp[i], u)
             IN  [s EXCEPT !.comp[i] = c2,
                           !.log = @ \o [k \in 1..c2.storage["moveCallbacks"] |->
                                            [Invocation("call", i, "moveCallbacks", k)
                                                EXCEPT !.pos = c2.event.pos,
                                                       !.delta = c2.event.delta,
                                                       !.inHandler = s.inHandler]]]

handleTouchMove(s, i, ev) ==
    LET touches == ev.touches
    IN  IF Len(touches) < 1 THEN s
        ELSE [s EXCEPT !.comp[i].pendingMove =
                 Closure(touches[1].clientX, touches[1].clientY, Absent, 0,
                         "moveCallbacks")]

handleTouchEnd(s, i, ev) ==
    IF ~s.comp[i].isTouching THEN s
    ELSE LET touches == ev.changedTouches
         IN  IF Len(touches) < 1 THEN s
             ELSE [s EXCEPT !.comp[i].pendingUp =
                      Closure(touches[1].clientX, touches[1].clientY, Absent, 0,
                              "upCallbacks"),
                            !.comp[i].isTouching = FALSE,
                            !.primary[i] = <<>>]

\* The slot a raw event type writes.
SlotOf(type) ==
    CASE type \in {"mousemove", "mouseover", "mouseout", "touchmove"} -> "pendingMove"
      [] type \in {"mousedown", "touchstart"} -> "pendingDown"
      [] type \in {"mouseup", "touchend"} -> "pendingUp"

\* History: the raw event an instance was handed last since the slot was last
\* flushed, per slot (the mouse events mousemove, mousedown and mouseup; <<>>
\* after any other event), and for the move slot whether a different mousemove
\* came before it in that time.
noteRaw(s, i, type, ev) ==
    [s EXCEPT !.latest[i][SlotOf(type)] =
        IF type \in {"mousemove", "mousedown", "mouseup"}
        THEN <<[ev |-> ev,
                dropped |-> type = "mousemove" /\ @ /= <<>>
                               /\ (@[1].dropped \/ @[1].ev /= ev)]>>
        ELSE <<>>]

\* The handler an instance attaches for an event type.
handle(s, i, type, ev, fault) ==
    CASE type = "mousemove"  -> handleMouseMove(s, i, ev)
      [] type = "mousedown"  -> handleMouseDown(s, i, ev, fault)
      [] type = "mouseup"    -> handleMouseUp(s, i, ev)
      [] type = "mouseout"   -> handleMouseOut(s, i, ev)
      [] type = "mouseover"  -> handleMouseOver(s, i, ev)
      [] type = "touchstart" -> handleTouchStart(s, i, ev, fault)
      [] type = "touchmove"  -> handleTouchMove(s, i, ev)
      [] type = "touchend"   -> handleTouchEnd(s, i, ev)

\* The canvas invokes the handlers attached for the type in the order they were
\* added; an exception a handler throws is reported and the next handler runs.
RECURSIVE dispatchEvent(_, _, _, _, _, _)
dispatchEvent(s, targets, k, type, ev, fault) ==
    IF k > Len(targets) THEN s
    ELSE LET i  == targets[k]
             s0 == [s EXCEPT !.log = Append(@, [Invocation("handle", i, type, 0)
                                                   EXCEPT !.u = <<ev>>]),
                             !.inHandler = TRUE]
             s1 == handle(noteRaw(s0, i, type, ev), i, type, ev, fault)
             s2 == [s1 EXCEPT !.thrown = FALSE, !.inHandler = s.inHandler]
         IN  dispatchEvent(s2, targets, k + 1, type, ev, fault)

-----------------------------------------------------------------------------
(* The update tick *)

\* callback(event) for the k-th callback of a set, and what that callback does.
callListener(s, i, callbacks, k, fault) ==
    LET call == [Invocation("call", i, callbacks, k) EXCEPT
                     !.pos = s.comp[i].event.pos, !.delta = s.comp[i].event.delta,
                     !.inHandler = s.inHandler]
        s1   == [s EXCEPT !.log = Append(@, call)]
    IN  IF fault.set /= callbacks \/ fault.idx /= k THEN s1
        ELSE IF fault.kind = "throw" THEN [s1 EXCEPT !.thrown = TRUE]
        ELSE dispatchEvent(s1, s1.canvas[fault.kind], 1, fault.kind, fault.ev[1],
                           NoDrainFault)

\* callbacks.forEach((callback) => callback(event))
RECURSIVE triggerCallbacks(_, _, _, _, _)
triggerCallbacks(s, i, callbacks, k, fault) ==
    IF s.thrown \/ k > s.comp[i].storage[callbacks] THEN s
    ELSE triggerCallbacks(callListener(s, i, callbacks, k, fault), i, callbacks,
                          k + 1, fault)

\* A variant of the pending closures that empties the slot after the listeners
\* have run.
runPending_ClearAfter(s, i, slot, fault) ==
    LET u  == s.comp[i][slot][1]
        s1 == [s EXCEPT !.latest[i][slot] = <<>>]
        c2 == updateEvent(s1.comp[i], u)
        dispatched == [Invocation("dispatch", i, u.callbacks, 0) EXCEPT
                           !.slot = slot, !.u = <<u>>,
                           !.before = s.comp[i].event.pos,
                           !.pos = c2.event.pos, !.delta = c2.event.delta,
                           !.latest = s.latest[i][slot], !.stale = u.stale]
        s2 == [s1 EXCEPT !.comp[i] = c2, !.log = Append(@, dispatched)]
        s3 == triggerCallbacks(s2, i, u.callbacks, 1, fault)
    IN  IF s3.thrown THEN s3 ELSE [s3 EXCEPT !.comp[i][slot] = <<>>]

\* Calling the closure held in a slot:
\*   pendingX = null; updateEvent({...}); triggerCallbacks(storage.xCallbacks)
runPending(s, i, slot, fault) ==
    LET u  == s.comp[i][slot][1]
        s1 == [s EXCEPT !.comp[i][slot] = <<>>, !.latest[i][slot] = <<>>]
        c2 == updateEvent(s1.comp[i], u)
        dispatched == [Invocation("dispatch", i, u.callbacks, 0) EXCEPT
                           !.slot = slot, !.u = <<u>>,
                           !.before = s.comp[i].event.pos,
                           !.pos = c2.event.pos, !.delta = c2.event.delta,
                           !.latest = s.latest[i][slot], !.stale = u.stale]
        s2 == [s1 EXCEPT !.comp[i] = c2, !.log = Append(@, dispatched)]
    IN  triggerCallbacks(s2, i, u.callbacks, 1, fault)

\* if (pendingX) pendingX();
flush(s, i, slot, fault) ==
    IF s.thrown \/ s.comp[i][slot] = <<>> THEN s ELSE runPending(s, i, slot, fault)

\* A variant of the update callback that flushes the down slot first.
useUpdate_DownFirst(s, i, fault) ==
    flush(flush(flush(s, i, "pendingDown", fault), i, "pendingMove", fault),
          i, "pendingUp", fault)

\* The callback given to useUpdate.
useUpdate(s, i, fault) ==
    flush(flush(flush(s, i, "pendingMove", fault), i, "pendingDown", fault),
          i, "pendingUp", fault)

-----------------------------------------------------------------------------
(* Binding to the canvas *)

InSeq(x, seq) == \E k \in 1..Len(seq) : seq[k] = x

\* canvas.addEventListener(type, handler): adding a handler twice adds it once.
addEventListener(cv, types, i) ==
    [t \in EventTypes |->
        IF t \in types /\ ~InSeq(i, cv[t]) THEN Append(cv[t], i) ELSE cv[t]]

removeEventListener(cv, types, i) ==
    [t \in EventTypes |->
        IF t \in types THEN SelectSeq(cv[t], LAMBDA j : j /= i) ELSE cv[t]]

bindListeners(s, i) ==
    IF s.comp[i].bound THEN s
    ELSE [s EXCEPT !.canvas = addEventListener(@,
                        {"mousemove", "mousedown", "mouseup", "mouseover", "mouseout",
                         "touchstart", "touchmove", "touchend"}, i),
                   !.comp[i].bound = TRUE]

unbindListeners(s, i) ==
    IF ~s.comp[i].bound THEN s
    ELSE [s EXCEPT !.canvas = removeEventListener(@,
                        {"mousemove", "mousedown", "mouseup",
                         "touchstart", "touchmove", "touchend"}, i),
                   !.comp[i].bound = FALSE]

\* The update hook of a component is called on the ticks at which the
\* component is enabled.
UpdateHookRuns(i) == enabled[i]

-----------------------------------------------------------------------------
(* The Audio component *)

\* Calls and events of one Audio component in a behaviour.
MaxAudioSteps == 5

\* The fields of an Audio after its constructor.  elements are the audio
\* elements load() has created, each with the state of the promise its
\* handlers settle (inner) and of the promise .then() derives from it (outer),
\* which is the one kept in _loadingPromise (<<>> is null, <<k>> the promise of
\* element k).  played and trace are history: the calls of data.play(), and the
\* calls and events so far, each call with what it returned.
NewAudio ==
    [loaded |-> FALSE, data |-> <<>>, _loadingPromise |-> <<>>, elements |-> <<>>,
     played |-> 0, trace |-> <<>>]

Returned(a, op, ret, promise) ==
    [a EXCEPT !.trace = Append(@, [op |-> op, ret |-> ret, promise |-> promise])]

\* document.createElement("audio") in a new Promise, then .then(...).
CreateElement(a) ==
    [a EXCEPT !.elements = Append(@, [inner |-> "pending", outer |-> "pending"]),
              !._loadingPromise = <<Len(a.elements) + 1>>]

\* A variant of load() that does not look at _loadingPromise.
Audio_load_NoSingleFlight(a) ==
    IF a.loaded THEN Returned(a, "load", "Promise.resolve()", 0)
    ELSE Returned(CreateElement(a), "load", "_loadingPromise", Len(a.elements) + 1)

\* load()
Audio_load(a) ==
    IF a.loaded THEN Returned(a, "load", "Promise.resolve()", 0)
    ELSE IF a._loadingPromise /= <<>>
         THEN Returned(a, "load", "_loadingPromise", a._loadingPromise[1])
    ELSE Returned(CreateElement(a), "load", "_loadingPromise", Len(a.elements) + 1)

\* resolve() and reject(error) settle a promise that is pending and leave a
\* settled one as it is.
Settle(state, to) == IF state = "pending" THEN to ELSE state

\* image.oncanplaythrough of element k
oncanplaythrough(a, k) ==
    Returned([a EXCEPT !.loaded = TRUE, !.data = <<k>>,
                       !.elements[k].inner = Settle(@, "fulfilled")],
             "canplaythrough", "none", k)

\* image.onerror of element k
onerror(a, k) ==
    Returned([a EXCEPT !.elements[k].inner = Settle(@, "rejected")], "error", "none", k)

\* The reaction .then() registered on the promise of element k: the callback
\* runs when the promise is fulfilled; a rejection is passed on.
thenReaction(a, k) ==
    IF a.elements[k].inner = "fulfilled"
    THEN [a EXCEPT !._loadingPromise = <<>>, !.elements[k].outer = "fulfilled"]
    ELSE [a EXCEPT !.elements[k].outer = "rejected"]

\* play()
Audio_play(a) ==
    IF a.data = <<>> THEN Returned(a, "play", "Promise.resolve()", 0)
    ELSE Returned([a EXCEPT !.played = @ + 1], "play", "data.play()", 0)

-----------------------------------------------------------------------------
(* The Animation component *)

\* Frames of an animation, and how far past its target a timer is followed.
MaxFrames == 3
MaxDelta == 2

\* The AnimationFrames an Animation is given: a duration and whether there is
\* an onFrame.
AnimationFrame == [duration : {1, 2}, onFrame : BOOLEAN]

RECURSIVE FramesOfLength(_)
FramesOfLength(n) ==
    IF n = 0 THEN {<<>>}
    ELSE {Append(fs, f) : fs \in FramesOfLength(n - 1), f \in AnimationFrame}

FrameLists == UNION {FramesOfLength(n) : n \in 1..MaxFrames}

\* The Timer component: delta() is the time since the target, negative before
\* it; set(ms) puts the target ms ahead; the timer's update adds the time of
\* the frame while the timer is enabled.
NewTimer == [isEnabled |-> TRUE, delta |-> 0]

Timer_enable(tm) == [tm EXCEPT !.isEnabled = TRUE]

Timer_disable(tm) == [tm EXCEPT !.isEnabled = FALSE]

Timer_set(tm, msFromNow) == [tm EXCEPT !.delta = 0 - msFromNow]

Timer_delta(tm) == tm.delta

Timer_update(tm, dt) == IF tm.isEnabled THEN [tm EXCEPT !.delta = @ + dt] ELSE tm

\* Animation(props): the timer is created and disabled, the index is 0.
\* (calls is history: the calls of timer.set and onFrame in the last step.)
NewAnimation(props) ==
    [frames |-> props, timer |-> Timer_disable(NewTimer), currentFrameIndex |-> 0,
     op |-> "Animation", calls |-> <<>>]

\* frames[currentFrameIndex] (the sequences here start at 1)
getCurrentFrame(an) == an.frames[an.currentFrameIndex + 1]

\* A variant of the update callback that does not wrap.
Animation_update_NoWrap(an) ==
    IF Timer_delta(an.timer) > 0
    THEN LET an1 == [an EXCEPT !.currentFrameIndex = @ + 1]
             currentFrame == an1.frames[((an1.currentFrameIndex) % Len(an1.frames)) + 1]
         IN  [an1 EXCEPT !.timer = Timer_set(@, currentFrame.duration),
                         !.op = "update",
                         !.calls = <<[call |-> "timer.set", arg |-> currentFrame.duration]>>]
    ELSE [an EXCEPT !.op = "update", !.calls = <<>>]

\* The callback given to useUpdate.
Animation_update(an) ==
    IF Timer_delta(an.timer) > 0
    THEN LET an1 == [an EXCEPT !.currentFrameIndex =
                        IF @ = Len(an.frames) - 1 THEN 0 ELSE @ + 1]
             currentFrame == getCurrentFrame(an1)
         IN  [an1 EXCEPT !.timer = Timer_set(@, currentFrame.duration),
                         !.op = "update",
                         !.calls =
                            <<[call |-> "timer.set", arg |-> currentFrame.duration]>> \o
                            (IF currentFrame.onFrame
                             THEN <<[call |-> "onFrame", arg |-> an1.currentFrameIndex]>>
                             ELSE <<>>)]
    ELSE [an EXCEPT !.op = "update", !.calls = <<>>]

Animation_pause(an) ==
    [an EXCEPT !.timer = Timer_disable(@), !.op = "pause", !.calls = <<>>]

Animation_play(an) ==
    [an EXCEPT !.timer = Timer_set(Timer_enable(@), getCurrentFrame(an).duration),
               !.op = "play",
               !.calls = <<[call |-> "timer.set", arg |-> getCurrentFrame(an).duration]>>]

Animation_restart(an) ==
    [an EXCEPT !.currentFrameIndex = 0, !.op = "restart", !.calls = <<>>]

-----------------------------------------------------------------------------
(* The steps of the program *)

Commit(s) ==
    /\ firstClickHasHappened' = s.firstClickHasHappened
    /\ pendingFirstClickHandlers' = s.pendingFirstClickHandlers
    /\ comp' = s.comp
    /\ canvas' = s.canvas
    /\ log' = IF s.thrown THEN Append(s.log, Invocation("thrown", 0, "none", 0))
              ELSE s.log
    /\ fcCalls' = s.fcCalls
    /\ late' = s.late
    /\ flagObjects' = s.flagObjects
    /\ latest' = s.latest
    /\ primary' = s.primary
    /\ audio' = s.audio
    /\ animation' = s.animation

Init ==
    /\ firstClickHasHappened = FALSE
    /\ pendingFirstClickHandlers = <<>>
    /\ comp = [i \in Instances |-> NewComponent]
    /\ canvas = [t \in EventTypes |-> <<>>]
    /\ enabled = [i \in Instances |-> FALSE]
    /\ log = <<>>
    /\ fcCalls = [h \in 1..(MaxHandlers + 1) |-> 0]
    /\ late = {}
    /\ flagObjects = <<>>
    /\ latest = [i \in Instances |-> [sl \in Slots |-> <<>>]]
    /\ primary = [i \in Instances |-> <<>>]
    /\ audio = NewAudio
    /\ animation = <<>>

\* onEnabled(() => { if (canvas) bindListeners(canvas) })
Enable(i) ==
    /\ ~enabled[i]
    /\ enabled' = [enabled EXCEPT ![i] = TRUE]
    /\ Commit(bindListeners(Cur, i))

\* History: the closures a disable finds in the slots.
markStale(s, i) ==
    [s EXCEPT !.comp[i] =
        [f \in DOMAIN @ |->
            IF f \in Slots /\ @[f] /= <<>>
            THEN <<[@[f][1] EXCEPT !.stale = TRUE]>> ELSE @[f]]]

\* onDisabled(() => { if (canvas) unbindListeners(canvas) })
Disable(i) ==
    /\ enabled[i]
    /\ enabled' = [enabled EXCEPT ![i] = FALSE]
    /\ Commit(markStale(unbindListeners(Cur, i), i))

\* onMouseMove / onMouseDown / onMouseUp / onCanvasLeave / onCanvasEnter
AddCallback(i, callbacks) ==
    /\ comp[i].storage[callbacks] < MaxListeners
    /\ Commit([Cur EXCEPT !.comp[i].storage[callbacks] = @ + 1])
    /\ UNCHANGED enabled

UseFirstClick ==
    /\ Len(flagObjects) < MaxHandlers
    /\ Commit(useFirstClick(Cur))
    /\ UNCHANGED enabled

\* The browser delivers a raw mouse event to the canvas.
RawMouse(type, ev, fault) ==
    /\ canvas[type] /= <<>>
    /\ Commit(dispatchEvent(Cur, canvas[type], 1, type, ev, fault))
    /\ UNCHANGED enabled

\* The browser delivers a raw touch event to the canvas.
RawTouch(type, ev, fault) ==
    /\ canvas[type] /= <<>>
    /\ Commit(dispatchEvent(Cur, canvas[type], 1, type, ev, fault))
    /\ UNCHANGED enabled

\* The slot whose closures trigger a callback set.
SlotOfSet(callbacks) ==
    CASE callbacks \in {"moveCallbacks", "outCallbacks", "overCallbacks"} -> "pendingMove"
      [] callbacks = "downCallbacks" -> "pendingDown"
      [] callbacks = "upCallbacks" -> "pendingUp"

\* The listener a fault names is one this tick can invoke.
FaultCanHappen(i, fault) ==
    fault.set /= "none" =>
        /\ fault.idx <= comp[i].storage[fault.set]
        /\ comp[i][SlotOfSet(fault.set)] /= <<>>
        /\ comp[i][SlotOfSet(fault.set)][1].callbacks = fault.set

\* One update tick of an instance.
Tick(i, fault) ==
    /\ UpdateHookRuns(i)
    /\ FaultCanHappen(i, fault)
    /\ Commit(useUpdate(Cur, i, fault))
    /\ UNCHANGED enabled

\* The arguments updateEvent can be given: a position, a bitmask of five
\* buttons or none, and a button number or none.
UpdateEventArgs ==
    [clientX : {3}, clientY : {4}, buttons : {Absent} \cup 0..31,
     button : {Absent} \cup 0..4]

\* updateEvent({ clientX, clientY, buttons, button }) of an instance.
CallUpdateEvent(i, u) ==
    /\ Commit([Cur EXCEPT !.comp[i] = updateEvent(@, u),
                          !.log = <<[Invocation("updateEvent", i, "none", 0)
                                        EXCEPT !.u = <<u>>]>>])
    /\ UNCHANGED enabled

\* Bounding rectangles, canvas sizes and world matrices (identity, translation,
\* quarter turn, shear, reflection), and the positions for which the divisions
\* of translatePos are exact.
TranslateArgs ==
    LET rects    == [left : {0, 1}, top : {0, 2}, width : {4, 8}, height : {4, 8}]
        sizes    == {[width |-> 4, height |-> 4]}
        matrices == { [a |-> 1, b |-> 0, c |-> 0, d |-> 1, e |-> 0, f |-> 0],
                      matrixForWorldPosition,
                      [a |-> 0, b |-> 1, c |-> -1, d |-> 0, e |-> 2, f |-> 1],
                      [a |-> 1, b |-> 0, c |-> 1, d |-> 1, e |-> 0, f |-> 3],
                      [a |-> 0, b |-> 1, c |-> 1, d |-> 0, e |-> 1, f |-> 1] }
    IN  {q \in [rect : rects, size : sizes, m : matrices, clientX : 0..5, clientY : 0..5] :
            /\ (q.clientX - q.rect.left) % (q.rect.width \div q.size.width) = 0
            /\ (q.clientY - q.rect.top) % (q.rect.height \div q.size.height) = 0}

\* translatePos(clientX, clientY) on a canvas with the given rectangle and size,
\* in an entity with the given world matrix.
CallTranslatePos(q) ==
    /\ Commit([Cur EXCEPT !.log =
                  <<[Invocation("translatePos", 0, "none", 0) EXCEPT
                        !.u = <<q>>,
                        !.pos = translatePosIn(q.rect, q.size, q.m,
                                               q.clientX, q.clientY)]>>])
    /\ UNCHANGED enabled

\* Coordinates and scalars of the Point arithmetic checked.
Coords == {-2, 0, 3}

\* A receiver (the first Point of the heap) with a method and its argument: a
\* number, another Point (the second of the heap) or the receiver itself.
PointArgs ==
    LET points == [x : Coords, y : Coords]
        number == {[method |-> m, heap |-> <<p>>, other |-> [number |-> n]] :
                      m \in PointMethods \ {"opposite"}, p \in points, n \in Coords}
        object == {[method |-> m, heap |-> <<p, o>>, other |-> [ref |-> 2]] :
                      m \in {"add", "subtract", "multiply"}, p \in points, o \in points}
        itself == {[method |-> m, heap |-> <<p>>, other |-> [ref |-> 1]] :
                      m \in {"add", "subtract", "multiply"}, p \in points}
        none   == {[method |-> "opposite", heap |-> <<p>>, other |-> [number |-> 0]] :
                      p \in points}
    IN  number \cup object \cup itself \cup none

\* A non-mutating method and its *Mutate form, each called on the same heap.
CallPoint(q) ==
    /\ Commit([Cur EXCEPT !.log =
                  <<[Invocation("Point", 0, q.method, 0) EXCEPT
                        !.u = <<[heap |-> q.heap, this |-> 1, other |-> q.other,
                                 plain |-> CallMethod(q.method, q.heap, 1, q.other),
                                 mutate |-> CallMutate(q.method, q.heap, 1, q.other)]>>]>>])
    /\ UNCHANGED enabled

\* Points of integer magnitude whose rotations by the angles below are exact,
\* and the angles: 0, a quarter and a half turn, and the angles of cosine
\* 3/5, -3/5 and -4/5, each with its negative.
RotateArgs ==
    LET points == {Vector(0, 0), Vector(25, 0), Vector(-25, 0), Vector(0, 25),
                   Vector(0, -25), Vector(15, 20), Vector(20, -15), Vector(-20, 15),
                   Vector(-15, -20), Vector(40, 30), Vector(35, -120),
                   Vector(-120, 35)}
        angles == [cos : {1}, sin : {0}, den : {1}] \cup
                  [cos : {0}, sin : {-1, 1}, den : {1}] \cup
                  [cos : {-1}, sin : {0}, den : {1}] \cup
                  [cos : {-3, 3}, sin : {-4, 4}, den : {5}] \cup
                  [cos : {-4}, sin : {-3, 3}, den : {5}]
    IN  [v : points, a : angles]

\* The angle -a.
Negated(a) == [a EXCEPT !.sin = 0 - @]

\* v.rotate(0), v.rotate(a), v.rotate(a).rotate(-a) and v.rotateMutate(a).
CallRotate(q) ==
    /\ Commit([Cur EXCEPT !.log =
                  <<[Invocation("rotate", 0, "none", 0) EXCEPT
                        !.u = <<[v |-> q.v, a |-> q.a,
                                 zero |-> rotate(q.v, [cos |-> 1, sin |-> 0, den |-> 1]),
                                 once |-> rotate(q.v, q.a),
                                 back |-> rotate(rotate(q.v, q.a), Negated(q.a)),
                                 mutated |-> rotateMutate(q.v, q.a)]>>]>>])
    /\ UNCHANGED enabled

\* audio.load(), by the Preloader task or by anyone.
Load ==
    /\ Len(audio.trace) < MaxAudioSteps
    /\ Commit([Cur EXCEPT !.audio = Audio_load(@)])
    /\ UNCHANGED enabled

\* audio.play()
Play ==
    /\ Len(audio.trace) < MaxAudioSteps
    /\ Commit([Cur EXCEPT !.audio = Audio_play(@)])
    /\ UNCHANGED enabled

\* The audio element k fires canplaythrough.
CanPlayThrough(k) ==
    /\ Len(audio.trace) < MaxAudioSteps
    /\ Commit([Cur EXCEPT !.audio = oncanplaythrough(@, k)])
    /\ UNCHANGED enabled

\* The audio element k fires error.
ErrorEvent(k) ==
    /\ Len(audio.trace) < MaxAudioSteps
    /\ Commit([Cur EXCEPT !.audio = onerror(@, k)])
    /\ UNCHANGED enabled

\* The job of the reaction of element k runs.
ThenReaction(k) ==
    /\ audio.elements[k].inner /= "pending"
    /\ audio.elements[k].outer = "pending"
    /\ Commit([Cur EXCEPT !.audio = thenReaction(@, k)])
    /\ UNCHANGED enabled

\* useNewComponent(() => Animation(props))
UseAnimation(props) ==
    /\ animation = <<>>
    /\ Commit([Cur EXCEPT !.animation = <<NewAnimation(props)>>])
    /\ UNCHANGED enabled

\* One call of the API of the animation or of its update callback.
CallAnimation(op) ==
    /\ animation /= <<>>
    /\ Commit([Cur EXCEPT !.animation =
                  <<CASE op = "update"  -> Animation_update(@[1])
                      [] op = "pause"   -> Animation_pause(@[1])
                      [] op = "play"    -> Animation_play(@[1])
                      [] op = "restart" -> Animation_restart(@[1])>>])
    /\ UNCHANGED enabled

\* The update callback of the animation's timer, for a frame of dt ms.
TimerUpdate(dt) ==
    /\ animation /= <<>>
    /\ Timer_delta(animation[1].timer) + dt <= MaxDelta
    /\ Commit([Cur EXCEPT !.animation =
                  <<[@[1] EXCEPT !.timer = Timer_update(@, dt),
                                 !.op = "timer", !.calls = <<>>]>>])
    /\ UNCHANGED enabled

DrainFaultsOf(type) ==
    IF type \in {"mousedown", "touchstart"} /\ ~firstClickHasHappened
    THEN {f \in DrainFaults : f.idx <= Len(pendingFirstClickHandlers)}
    ELSE {NoDrainFault}

\* Mouse dispatch on one instance: the three buffered mouse events, the
\* listeners of the three classes and the tick, with listeners that throw or
\* dispatch raw events while they run.
Next ==
    \/ Enable(1)
    \/ \E c \in {"moveCallbacks", "downCallbacks", "upCallbacks"} : AddCallback(1, c)
    \/ \E t \in {"mousemove", "mousedown", "mouseup"}, ev \in MouseEvents :
          RawMouse(t, ev, NoDrainFault)
    \/ \E f \in TickFaults : Tick(1, f)

Spec == Init /\ [][Next]_vars

\* The first-click gate with two instances on the canvas: registrations, the
\* events that open the gate, and handlers that throw or register again.
NextFirstClick ==
    \/ \E i \in Instances : Enable(i)
    \/ \E i \in Instances : Disable(i)
    \/ UseFirstClick
    \/ \E ev \in {e \in MouseEvents : e.button = 0} :
          \E f \in DrainFaultsOf("mousedown") : RawMouse("mousedown", ev, f)
    \/ \E ev \in {e \in TouchEvents : Len(e.touches) = Len(e.changedTouches)} :
          \E f \in DrainFaultsOf("touchstart") : RawTouch("touchstart", ev, f)
    \/ \E i \in Instances : Tick(i, NoFault)

SpecFirstClick == Init /\ [][NextFirstClick]_vars

\* Every buffered raw event type, mouse and touch, on one instance.
NextRaw ==
    \/ Enable(1)
    \/ \E c \in {"moveCallbacks", "downCallbacks", "upCallbacks"} : AddCallback(1, c)
    \/ \E t \in {"mousemove", "mousedown", "mouseup"},
          ev \in {e \in MouseEvents : e.button = 2} : RawMouse(t, ev, NoDrainFault)
    \/ \E t \in TouchTypes,
          ev \in {e \in TouchEvents : Len(e.touches) = Len(e.changedTouches)} :
          RawTouch(t, ev, NoDrainFault)
    \/ Tick(1, NoFault)

SpecRaw == Init /\ [][NextRaw]_vars

\* Enabling and disabling one instance while events arrive.
NextLifecycle ==
    \/ Enable(1)
    \/ Disable(1)
    \/ \E c \in {"moveCallbacks", "downCallbacks", "overCallbacks"} : AddCallback(1, c)
    \/ \E t \in {"mousemove", "mousedown", "mouseover"}, ev \in MouseEvents :
          RawMouse(t, ev, NoDrainFault)
    \/ Tick(1, NoFault)

SpecLifecycle == Init /\ [][NextLifecycle]_vars

\* Listeners that dispatch raw events or throw while they run, with one raw
\* event delivered by the browser and another dispatched by the listeners.
NextReentrant ==
    \/ Enable(1)
    \/ \E c \in {"moveCallbacks", "downCallbacks", "upCallbacks"} : AddCallback(1, c)
    \/ \E t \in {"mousemove", "mousedown", "mouseup"},
          ev \in {e \in MouseEvents : e.button = 2} : RawMouse(t, ev, NoDrainFault)
    \/ \E f \in TickFaults : Tick(1, f)

SpecReentrant == Init /\ [][NextReentrant]_vars

\* updateEvent on every bitmask and button number, one call after another.
NextButtons ==
    \E u \in UpdateEventArgs : CallUpdateEvent(1, u)

SpecButtons == Init /\ [][NextButtons]_vars

\* translatePos on canvases of several rectangles and entity transforms.
NextTranslate ==
    \E q \in TranslateArgs : CallTranslatePos(q)

SpecTranslate == Init /\ [][NextTranslate]_vars

\* The arithmetic methods of Point and their *Mutate forms.
NextPoint ==
    \E q \in PointArgs : CallPoint(q)

SpecPoint == Init /\ [][NextPoint]_vars

\* Rotations of Points.
NextRotate ==
    \E q \in RotateArgs : CallRotate(q)

SpecRotate == Init /\ [][NextRotate]_vars

\* One Audio: calls of load and play, the events of its elements and the
\* reactions of its promises.
NextAudio ==
    \/ Load
    \/ Play
    \/ \E k \in 1..Len(audio.elements) : CanPlayThrough(k)
    \/ \E k \in 1..Len(audio.elements) : ErrorEvent(k)
    \/ \E k \in 1..Len(audio.elements) : ThenReaction(k)

SpecAudio == Init /\ [][NextAudio]_vars

\* One Animation: its creation, its API, its update callback and its timer's.
NextAnimation ==
    \/ \E props \in FrameLists : UseAnimation(props)
    \/ \E op \in {"update", "pause", "play", "restart"} : CallAnimation(op)
    \/ \E dt \in {1, 2} : TimerUpdate(dt)

SpecAnimation == Init /\ [][NextAnimation]_vars

\* Touch input of up to two fingers on one instance.
NextTouch ==
    \/ Enable(1)
    \/ \E c \in {"moveCallbacks", "downCallbacks"} : AddCallback(1, c)
    \/ \E t \in TouchTypes, ev \in TwoFingerEvents : RawTouch(t, ev, NoDrainFault)
    \/ Tick(1, NoFault)

SpecTouch == Init /\ [][NextTouch]_vars

-----------------------------------------------------------------------------
(* Properties *)

LogIndices == 1..Len(log)

Calls == {k \in LogIndices : log[k].op = "call"}

Dispatches == {k \in LogIndices : log[k].op = "dispatch"}

\* The place of a class in the order move, down, up.
Rank(callbacks) ==
    CASE callbacks = "downCallbacks" -> 2
      [] callbacks = "upCallbacks" -> 3
      [] OTHER -> 1

\* C1: within one tick of an instance the listeners fire in the order move,
\* down, up: no down listener is invoked before a move listener, and no up
\* listener before a move or a down listener.
C1_DispatchOrder ==
    \A a, b \in Calls :
        (a < b /\ log[a].inst = log[b].inst
               /\ {log[a].set, log[b].set} \subseteq
                      {"moveCallbacks", "downCallbacks", "upCallbacks"})
            => Rank(log[a].set) <= Rank(log[b].set)

\* A tick that found all three slots pending and invoked two move listeners,
\* a down listener and an up listener.
C1_Witness ==
    /\ {log[k].slot : k \in Dispatches} = Slots
    /\ \E a, b, c, d \in Calls :
          /\ a < b /\ b < c /\ c < d
          /\ log[a].set = "moveCallbacks" /\ log[b].set = "moveCallbacks"
          /\ log[c].set = "downCallbacks" /\ log[d].set = "upCallbacks"

\* The closure u carries the coordinates and the button data of the raw mouse
\* event ev, and triggers the listeners of the event's class.
CarriesEvent(slot, u, ev) ==
    /\ u.clientX = ev.clientX /\ u.clientY = ev.clientY
    /\ slot = "pendingMove" =>
          u.buttons = ev.buttons /\ u.button = Absent /\ u.callbacks = "moveCallbacks"
    /\ slot = "pendingDown" =>
          u.button = ev.button /\ u.buttons = Absent /\ u.callbacks = "downCallbacks"
    /\ slot = "pendingUp" =>
          u.button = ev.button /\ u.buttons = Absent /\ u.callbacks = "upCallbacks"

\* C2: a tick dispatches each class at most once, and when the last raw event
\* of the class was a mousemove, mousedown or mouseup, the dispatch carries the
\* coordinates and button data of that event, not of an earlier one.
C2_LatestEventOnly ==
    \A a \in Dispatches :
        /\ \A b \in Dispatches :
              (b /= a /\ log[b].inst = log[a].inst) => log[b].slot /= log[a].slot
        /\ log[a].latest /= <<>> =>
              CarriesEvent(log[a].slot, log[a].u[1], log[a].latest[1].ev)

\* A tick that dispatched a move and a down, the move for the last of several
\* different mousemove events received since the previous flush.
C2_Witness ==
    \E a, b \in Dispatches :
        /\ log[a].slot = "pendingMove" /\ log[a].latest /= <<>>
        /\ log[a].latest[1].dropped
        /\ log[b].slot = "pendingDown" /\ log[b].latest /= <<>>
        /\ Cardinality({k \in Calls : log[k].set = "moveCallbacks"}) = 1

RawStepOf(l) == IF Len(l) > 0 /\ l[1].op = "handle" THEN l[1].set ELSE "none"

\* C4: no listener is invoked while a raw handler runs (mousemove, mousedown,
\* mouseup, touchstart, touchmove, touchend), and the delivery of such an event
\* changes of the instances' slots, snapshots and listener sets nothing but the
\* slot of the event's class.
C4_RawHandlersOnlyBuffer ==
    [][ /\ \A k \in 1..Len(log') : log'[k].op = "call" => ~log'[k].inHandler
        /\ RawStepOf(log') \in {"mousemove", "mousedown", "mouseup",
                                "touchstart", "touchmove", "touchend"} =>
              /\ \A k \in 1..Len(log') : log'[k].op /= "call"
              /\ \A i \in Instances :
                    /\ \A sl \in Slots \ {SlotOf(RawStepOf(log'))} :
                          comp'[i][sl] = comp[i][sl]
                    /\ comp'[i].event = comp[i].event
                    /\ comp'[i].lastPos = comp[i].lastPos
                    /\ comp'[i].storage = comp[i].storage ]_vars

\* A touchmove delivered to an instance that has move, down and up listeners
\* and a down already pending: the move is left in its slot and no listener
\* has been called.
C4_Witness ==
    /\ RawStepOf(log) = "touchmove"
    /\ Calls = {}
    /\ comp[1].pendingMove /= <<>> /\ comp[1].pendingDown /= <<>>
    /\ \A c \in {"moveCallbacks", "downCallbacks", "upCallbacks"} : comp[1].storage[c] > 0

FirstClickCalls == {k \in LogIndices : log[k].op = "firstClick"}

\* The handlers registered before the latch was set.
EarlyHandlers == (1..Len(flagObjects)) \ late

\* C5: every handler registered before the first mousedown or touchstart is
\* invoked exactly once, at that event, in registration order, and never again.
C5_EarlyHandlersRunOnce ==
    /\ \A h \in EarlyHandlers : fcCalls[h] = IF firstClickHasHappened THEN 1 ELSE 0
    /\ \A a, b \in FirstClickCalls : a < b => log[a].idx < log[b].idx

\* A mousedown or a touchstart was handed to an instance in the last step.
GateEventIn(l) ==
    \E k \in 1..Len(l) : l[k].op = "handle" /\ l[k].set \in {"mousedown", "touchstart"}

\* Every object useFirstClick has returned reads the current latch.
FlagObjectsReadLatch ==
    \A k \in 1..Len(flagObjects) : ReadFlag(flagObjects[k]) = firstClickHasHappened

\* C6: the latch is never set back to false; a step that hands a mousedown or
\* a touchstart to an instance leaves it true and no other step changes it;
\* the objects returned by useFirstClick read its current value.
C6_LatchMonotone ==
    [][ /\ firstClickHasHappened => firstClickHasHappened'
        /\ GateEventIn(log') => firstClickHasHappened'
        /\ firstClickHasHappened' /= firstClickHasHappened => GateEventIn(log')
        /\ FlagObjectsReadLatch' ]_vars

\* The latch is set, an object returned before that reads true, a handler was
\* registered afterwards, and an instance has been enabled and disabled since.
C6_Witness ==
    /\ firstClickHasHappened
    /\ \E k \in 1..Len(flagObjects) : ~flagObjects[k].value /\ ReadFlag(flagObjects[k])
    /\ late /= {}
    /\ \E i \in Instances : ~enabled[i] /\ InSeq(i, canvas["mouseover"])
    /\ ~GateEventIn(log)

\* C7: a handler registered when the latch was already set, also one that a
\* first-click handler registers while the queue is drained, is never invoked.
C7_LateHandlersNeverRun ==
    \A h \in late : fcCalls[h] = 0

\* One handler was registered by a first-click handler during the drain (the
\* drain has dropped it from the queue), another one after the drain, and a
\* later mousedown or touchstart has been handled without invoking either.
C7_Witness ==
    /\ \E h \in late : ~InSeq(h, pendingFirstClickHandlers)
    /\ \E h \in late : InSeq(h, pendingFirstClickHandlers)
    /\ \E h \in EarlyHandlers : fcCalls[h] = 1
    /\ GateEventIn(log)
    /\ FirstClickCalls = {}

\* C8: when a class is dispatched, every listener registered for it is
\* invoked in that pass even if one of them throws, and no exception leaves
\* the dispatch loop.
C8_ListenerIsolation ==
    /\ \A k \in Dispatches :
           {log[c].idx : c \in {d \in Calls : /\ log[d].inst = log[k].inst
                                              /\ log[d].set = log[k].set}}
               = 1..comp[log[k].inst].storage[log[k].set]
    /\ \A k \in LogIndices : log[k].op /= "thrown"

\* C9: while an instance is disabled none of its raw handlers is attached to
\* the canvas, and no raw event is handled by it.
C9_DetachedWhileDisabled ==
    \A i \in Instances :
        ~enabled[i] =>
            /\ \A t \in EventTypes : ~InSeq(i, canvas[t])
            /\ \A k \in LogIndices : ~(log[k].op = "handle" /\ log[k].inst = i)

\* C10: no tick dispatches a pending action that was in a slot when the
\* instance was disabled.
C10_PendingDroppedAtDisable ==
    \A k \in Dispatches : ~log[k].stale

\* The instances a raw event of the given type is handed to in a step with
\* the log l, each with the event.
Handled(l, type) ==
    {<<l[k].inst, l[k].u[1]>> : k \in {j \in 1..Len(l) : l[j].op = "handle" /\ l[j].set = type}}

\* C11: a touchstart handed to an instance that is touching changes nothing of
\* the instance (its pending down with the coordinates captured, the other
\* slots, isTouching), nor the first-click latch and queue, and runs no
\* first-click handler.
C11_TouchStartWhileTouching ==
    [][ \A h \in Handled(log', "touchstart") :
            comp[h[1]].isTouching =>
                /\ comp'[h[1]] = comp[h[1]]
                /\ firstClickHasHappened' = firstClickHasHappened
                /\ pendingFirstClickHandlers' = pendingFirstClickHandlers
                /\ \A k \in 1..Len(log') : log'[k].op /= "firstClick" ]_vars

\* A touchstart whose first touch point is elsewhere has been handed to a
\* touching instance whose down is still pending with the coordinates of the
\* touchstart it accepted.
C11_Witness ==
    \E h \in Handled(log, "touchstart") :
        /\ comp[h[1]].isTouching
        /\ comp[h[1]].pendingDown /= <<>>
        /\ Len(h[2].touches) > 0
        /\ h[2].touches[1].clientX /= comp[h[1]].pendingDown[1].clientX
        /\ primary[h[1]] /= <<h[2].touches[1].identifier>>

\* A touch event that carries no touch point.
ZeroTouches(ev) == Len(ev.touches) = 0 /\ Len(ev.changedTouches) = 0

\* C12: a touchstart, touchmove or touchend without touch points changes
\* nothing of the instance it is handed to (no pending action, isTouching),
\* nor the first-click latch and queue, and runs no first-click handler.
C12_ZeroTouchesIgnored ==
    [][ \A type \in TouchTypes : \A h \in Handled(log', type) :
            ZeroTouches(h[2]) =>
                /\ comp'[h[1]] = comp[h[1]]
                /\ firstClickHasHappened' = firstClickHasHappened
                /\ pendingFirstClickHandlers' = pendingFirstClickHandlers
                /\ \A k \in 1..Len(log') : log'[k].op /= "firstClick" ]_vars

\* The value of a set of bit positions.
MaskOf(S) ==
    (IF 0 \in S THEN 1 ELSE 0) + (IF 1 \in S THEN 2 ELSE 0) + (IF 2 \in S THEN 4 ELSE 0)
        + (IF 3 \in S THEN 8 ELSE 0) + (IF 4 \in S THEN 16 ELSE 0)

\* The bit positions set in a bitmask of five bits.
BitsOf(b) == CHOOSE S \in SUBSET (0..4) : MaskOf(S) = b

\* C13: after updateEvent the five flags are left = bit 0 or button 0,
\* right = bit 1 or button 2, middle = bit 2 or button 1, mouse4 = bit 3 or
\* button 3, mouse5 = bit 4 or button 4, of the arguments of this call alone,
\* an absent bitmask counting as 0; with a button number and no bitmask
\* exactly one flag is true.
C13_ButtonDecoding ==
    \A k \in {j \in LogIndices : log[j].op = "updateEvent"} :
        LET u     == log[k].u[1]
            bits  == BitsOf(IF u.buttons = Absent THEN 0 ELSE u.buttons)
            flags == comp[log[k].inst].event.buttons
        IN  /\ flags.left   = (0 \in bits \/ u.button = 0)
            /\ flags.right  = (1 \in bits \/ u.button = 2)
            /\ flags.middle = (2 \in bits \/ u.button = 1)
            /\ flags.mouse4 = (3 \in bits \/ u.button = 3)
            /\ flags.mouse5 = (4 \in bits \/ u.button = 4)
            /\ (u.buttons = Absent /\ u.button /= Absent) =>
                   Cardinality({f \in DOMAIN flags : flags[f]}) = 1

\* updateEvent has been called with the bitmask 3 and no button number, and
\* has left the flags left and right true and the other three false.
C13_Witness ==
    \E k \in LogIndices :
        /\ log[k].op = "updateEvent"
        /\ log[k].u[1].buttons = 3 /\ log[k].u[1].button = Absent
        /\ comp[log[k].inst].event.buttons =
               [left |-> TRUE, right |-> TRUE, middle |-> FALSE,
                mouse4 |-> FALSE, mouse5 |-> FALSE]

Translations == {k \in LogIndices : log[k].op = "translatePos"}

\* C14: the world matrix applied to the result of translatePos is the point
\* ((clientX - rect.left) / scaleX, (clientY - rect.top) / scaleY) with
\* scaleX = rect.width / canvas.width and scaleY = rect.height / canvas.height:
\* the offset is subtracted, the difference is divided by the scale, and the
\* inverse matrix is applied last.
C14_TranslatePos ==
    \A k \in Translations :
        LET q == log[k].u[1]
            p == transformPoint(q.m, log[k].pos)
        IN  /\ p.x * q.rect.width = (q.clientX - q.rect.left) * q.size.width
            /\ p.y * q.rect.height = (q.clientY - q.rect.top) * q.size.height

\* translatePos on a canvas shown at twice its size in one axis, away from
\* the origin, in an entity that is turned.
C14_Witness ==
    \E k \in Translations :
        LET q == log[k].u[1]
        IN  /\ q.rect.left > 0 /\ q.rect.top > 0
            /\ q.rect.width > q.size.width /\ q.rect.height = q.size.height
            /\ q.m.b /= 0 /\ q.m.e /= 0
            /\ q.clientX > q.rect.left /\ q.clientY > q.rect.top
            /\ log[k].pos /= Vector(q.clientX, q.clientY)

\* The calls of translatePos on a canvas shown at its own size in an entity
\* whose world matrix is the identity.
UnscaledIdentity ==
    {k \in Translations :
        LET q == log[k].u[1]
        IN  /\ q.rect.width = q.size.width /\ q.rect.height = q.size.height
            /\ q.m = [a |-> 1, b |-> 0, c |-> 0, d |-> 1, e |-> 0, f |-> 0]}

\* C15 as stated: with scale 1 and the identity transform, the forward
\* transform of translatePos(clientX, clientY) is (clientX, clientY) again,
\* whatever the bounding rectangle of the canvas.
C15_RoundTripToScreen ==
    \A k \in UnscaledIdentity :
        LET q == log[k].u[1]
        IN  transformPoint(q.m, log[k].pos) = Vector(q.clientX, q.clientY)

\* C15, amended: with scale 1 and the identity transform, the forward
\* transform of translatePos(clientX, clientY) is the screen coordinate
\* relative to the top-left corner of the bounding rectangle,
\* (clientX - rect.left, clientY - rect.top); it is the screen coordinate
\* itself exactly when the rectangle has its corner at (0, 0).
C15_RoundTripToCanvas ==
    \A k \in UnscaledIdentity :
        LET q == log[k].u[1]
            p == transformPoint(q.m, log[k].pos)
        IN  /\ p = Vector(q.clientX - q.rect.left, q.clientY - q.rect.top)
            /\ (p = Vector(q.clientX, q.clientY)) <=> (q.rect.left = 0 /\ q.rect.top = 0)

\* translatePos at scale 1 under the identity on a canvas whose rectangle is
\* away from the origin: the result is not the screen coordinate.
C15_Witness ==
    \E k \in UnscaledIdentity :
        LET q == log[k].u[1]
        IN  /\ q.rect.left > 0 /\ q.rect.top > 0
            /\ log[k].pos = Vector(q.clientX - q.rect.left, q.clientY - q.rect.top)
            /\ log[k].pos /= Vector(q.clientX, q.clientY)

\* The invocations of the listeners of the class a dispatch triggers.
CallsOf(k) ==
    {c \in Calls : log[c].inst = log[k].inst /\ log[c].set = log[k].set}

\* C16: in a dispatch of a class every listener registered for it is invoked
\* exactly once, the j-th invocation being that of the j-th listener
\* registered, and every invocation is given the snapshot of the dispatch.
C16_RegistrationOrder ==
    \A k \in Dispatches :
        /\ Cardinality(CallsOf(k)) = comp[log[k].inst].storage[log[k].set]
        /\ \A c \in CallsOf(k) :
              /\ log[c].idx = Cardinality({d \in CallsOf(k) : d <= c})
              /\ log[c].pos = log[k].pos
              /\ log[c].delta = log[k].delta

\* The dispatches of a slot of an instance in the step with the log l.
DispatchesOf(l, i, slot) ==
    {k \in 1..Len(l) : l[k].op = "dispatch" /\ l[k].inst = i /\ l[k].slot = slot}

\* The raw mouse events of the class of a slot handed to an instance in the
\* step with the log l.
HandledMouse(l, i, slot) ==
    {h \in 1..Len(l) : /\ l[h].op = "handle" /\ l[h].inst = i
                       /\ l[h].set \in {"mousemove", "mousedown", "mouseup"}
                       /\ SlotOf(l[h].set) = slot}

\* In the step with the log l, a raw mouse event of the class of a slot was
\* handed to the instance while the listeners of that class were dispatched:
\* the positions of the dispatch and of the event in the log.
Reentered(l, i, slot) ==
    {r \in DispatchesOf(l, i, slot) \X HandledMouse(l, i, slot) :
        /\ r[1] < r[2]
        /\ \A j \in (r[1] + 1)..(r[2] - 1) : l[j].op /= "dispatch"}

\* The step is an update tick of the instance that found something pending.
TickStep(i) == Len(log') > 0 /\ log'[1].op = "dispatch" /\ log'[1].inst = i

SlotRank(slot) ==
    CASE slot = "pendingMove" -> 1 [] slot = "pendingDown" -> 2 [] slot = "pendingUp" -> 3

\* In the step with the log l, a raw mousedown or mouseup was handed to the
\* instance while the listeners of an earlier class were dispatched: the
\* positions of the dispatch and of the event in the log.
CrossClass(l, i) ==
    {r \in {k \in 1..Len(l) : l[k].op = "dispatch" /\ l[k].inst = i}
              \X (HandledMouse(l, i, "pendingDown") \cup HandledMouse(l, i, "pendingUp")) :
        /\ r[1] < r[2]
        /\ SlotRank(l[r[1]].slot) < SlotRank(SlotOf(l[r[2]].set))
        /\ \A j \in (r[1] + 1)..(r[2] - 1) : l[j].op /= "dispatch"}

\* C18: a raw mousedown or mouseup handed to the instance while the listeners
\* of an earlier class are dispatched (a move listener triggering a down or an
\* up, a down listener triggering an up) is not dispatched in the tick that is
\* flushing: it is still pending when the tick is over.
C18_CrossClassNextTick ==
    \A i \in Instances : \A r \in CrossClass(log, i) :
        /\ \A d \in DispatchesOf(log, i, SlotOf(log[r[2]].set)) : d < r[2]
        /\ comp[i][SlotOf(log[r[2]].set)] /= <<>>

\* C19: a touchstart with a touch point, handed to an instance that is not
\* touching, leaves a move and a down pending, both at the position of the
\* first touch point, so that the next flush invokes the move listeners with
\* that position and the down listeners after them.
C19_TouchStartMoveAndDown ==
    [][ \A h \in Handled(log', "touchstart") :
            (~comp[h[1]].isTouching /\ Len(h[2].touches) > 0) =>
                LET c == comp'[h[1]]
                    p == h[2].touches[1]
                IN  /\ c.pendingMove /= <<>>
                    /\ c.pendingMove[1].callbacks = "moveCallbacks"
                    /\ c.pendingMove[1].clientX = p.clientX
                    /\ c.pendingMove[1].clientY = p.clientY
                    /\ c.pendingDown /= <<>>
                    /\ c.pendingDown[1].callbacks = "downCallbacks"
                    /\ c.pendingDown[1].clientX = p.clientX
                    /\ c.pendingDown[1].clientY = p.clientY ]_vars

\* The identifiers of a list of touch points.
Identifiers(touches) == {touches[k].identifier : k \in 1..Len(touches)}

\* A touch event about other touch points than the one the instance follows,
\* which is still in contact.
SecondaryOnly(i, ev) ==
    /\ comp[i].isTouching /\ primary[i] /= <<>>
    /\ primary[i][1] \in Identifiers(ev.touches)
    /\ ev.changedTouches /= <<>>
    /\ primary[i][1] \notin Identifiers(ev.changedTouches)

\* C20: while the touch point an instance follows is in contact, a touchstart,
\* touchmove or touchend of other touch points leaves the down and up slots
\* and isTouching as they are, and a move it schedules has the position of
\* the touch point the instance follows.
C20_SecondaryTouchesIgnored ==
    [][ \A type \in TouchTypes : \A h \in Handled(log', type) :
            SecondaryOnly(h[1], h[2]) =>
                LET i == h[1]
                IN  /\ comp'[i].pendingDown = comp[i].pendingDown
                    /\ comp'[i].pendingUp = comp[i].pendingUp
                    /\ comp'[i].isTouching = comp[i].isTouching
                    /\ \/ comp'[i].pendingMove = comp[i].pendingMove
                       \/ \E k \in 1..Len(h[2].touches) :
                             /\ h[2].touches[k].identifier = primary[i][1]
                             /\ comp'[i].pendingMove /= <<>>
                             /\ comp'[i].pendingMove[1].clientX = h[2].touches[k].clientX
                             /\ comp'[i].pendingMove[1].clientY = h[2].touches[k].clientY ]_vars

\* C21: every listener invoked in a tick is given a delta that is the
\* position it is given minus the position the snapshot had when the tick
\* began, also when the tick dispatches two or three classes.
C21_DeltaSinceLastFrame ==
    \A c \in Calls :
        LET first == CHOOSE k \in Dispatches :
                         /\ log[k].inst = log[c].inst
                         /\ \A j \in Dispatches : log[j].inst = log[c].inst => k <= j
        IN  log[c].delta = Vector(log[c].pos.x - log[first].before.x,
                                  log[c].pos.y - log[first].before.y)

PointCalls == {k \in LogIndices : log[k].op = "Point"}

\* C22: a non-mutating arithmetic method of Point leaves the receiver (and
\* every Point there was) as it is and returns a new Point; its *Mutate form
\* returns the receiver, creates no Point and leaves in the receiver the
\* value the non-mutating method returns.
C22_MutateAndPlainAgree ==
    \A k \in PointCalls :
        LET e == log[k].u[1]
            n == Len(e.heap)
        IN  /\ e.plain.ret = n + 1
            /\ Len(e.plain.heap) = n + 1
            /\ SubSeq(e.plain.heap, 1, n) = e.heap
            /\ e.mutate.ret = e.this
            /\ Len(e.mutate.heap) = n
            /\ \A r \in (1..n) \ {e.this} : e.mutate.heap[r] = e.heap[r]
            /\ e.plain.heap[e.plain.ret] = e.mutate.heap[e.this]

\* multiply with the receiver itself as the argument: a new Point holds the
\* squares, which multiplyMutate leaves in the receiver, and they differ from
\* the receiver's coordinates.
C22_Witness ==
    \E k \in PointCalls :
        LET e == log[k].u[1]
        IN  /\ log[k].set = "multiply" /\ e.other = [ref |-> 1]
            /\ e.plain.heap[e.plain.ret] =
                   Vector(e.heap[1].x * e.heap[1].x, e.heap[1].y * e.heap[1].y)
            /\ e.mutate.heap[1] = e.plain.heap[e.plain.ret]
            /\ e.mutate.heap[1] /= e.heap[1]

Rotations == {k \in LogIndices : log[k].op = "rotate"}

\* C23: v.rotate(0) is v, v.rotate(a).rotate(-a) is v, and v.rotate(a) has
\* the magnitude of v (in exact arithmetic, which the floating-point results
\* approximate).
C23_RotateRoundTrip ==
    \A k \in Rotations :
        LET e == log[k].u[1]
        IN  /\ e.zero = e.v
            /\ e.back = e.v
            /\ magnitude(e.once) = magnitude(e.v)
            /\ e.once.x * e.once.x + e.once.y * e.once.y = e.v.x * e.v.x + e.v.y * e.v.y

\* A Point off the axes rotated by an angle that is no multiple of a quarter
\* turn: the rotated Point is another Point, and rotating back gives the first.
C23_Witness ==
    \E k \in Rotations :
        LET e == log[k].u[1]
        IN  /\ e.v.x /= 0 /\ e.v.y /= 0 /\ e.a.den > 1
            /\ e.once /= e.v /\ e.back = e.v /\ e.mutated = e.once

\* The listeners a raw event of the given type is for.
ListenersOf(type) ==
    CASE type \in {"mousemove", "touchmove"} -> "moveCallbacks"
      [] type = "mouseover" -> "overCallbacks"
      [] type = "mouseout" -> "outCallbacks"
      [] type \in {"mousedown", "touchstart"} -> "downCallbacks"
      [] type \in {"mouseup", "touchend"} -> "upCallbacks"

\* C24: the delivery of a raw event leaves every pending action for the
\* listeners of another class in its slot as it was; in particular a mouseover
\* or mouseout handed to an instance with a move pending leaves that move
\* pending, so that the next flush invokes the move listeners with it.
C24_SlotIndependence ==
    [][ RawStepOf(log') /= "none" =>
            \A i \in Instances, slot \in Slots :
                (/\ comp[i][slot] /= <<>>
                 /\ comp[i][slot][1].callbacks /= ListenersOf(RawStepOf(log'))) =>
                    comp'[i][slot] = comp[i][slot] ]_vars

\* The step with the log l is an update tick of the instance in which a
\* listener threw.
ThrowingTick(l, i) ==
    /\ Len(l) > 0
    /\ l[1].op = "dispatch" /\ l[1].inst = i
    /\ l[Len(l)].op = "thrown"

\* The dispatch a tick with the log l ran last.
LastDispatch(l) ==
    CHOOSE k \in 1..Len(l) :
        /\ l[k].op = "dispatch"
        /\ \A j \in 1..Len(l) : l[j].op = "dispatch" => j <= k

\* The slots flushed after the slot of the dispatch a listener threw in.
LaterSlots(l) == {sl \in Slots : SlotRank(sl) > SlotRank(l[LastDispatch(l)].slot)}

\* The tick a listener throws in: the slot of the class dispatched is empty, the
\* snapshot is that of the dispatch, and the slots later in the order are
\* neither dispatched nor changed.
ThrowKeepsLaterSlots(i) ==
    ThrowingTick(log', i) =>
        LET k == LastDispatch(log')
        IN  /\ comp'[i][log'[k].slot] = <<>>
            /\ comp'[i].event.pos = log'[k].pos
            /\ comp'[i].event.delta = log'[k].delta
            /\ comp'[i].lastPos = log'[k].pos
            /\ \A sl \in LaterSlots(log') :
                  /\ DispatchesOf(log', i, sl) = {}
                  /\ comp'[i][sl] = comp[i][sl]

\* The tick dispatches the slot, with the action that was pending unless a
\* listener of the tick has put another in its place.
DispatchedNow(i, sl) ==
    \E d \in DispatchesOf(log', i, sl) :
        HandledMouse(log', i, sl) = {} => log'[d].u = <<comp[i][sl][1]>>

\* C25: when a listener throws during the dispatch of a class, the
\* slot of the class is empty, the snapshot is updated, the pending actions of
\* the later classes are neither run nor changed, and the tick that follows
\* dispatches each of them.
C25_LaterClassesNextTick ==
    [][ \A i \in Instances :
          /\ ThrowKeepsLaterSlots(i)
          /\ (ThrowingTick(log, i) /\ TickStep(i)) =>
                \A sl \in LaterSlots(log) :
                    comp[i][sl] /= <<>> => DispatchedNow(i, sl) ]_vars

\* The step is a call of load() or play(), or an event, of the Audio.
AudioStep == Len(audio'.trace) = Len(audio.trace) + 1

\* The call or event of the step, with what it returned.
LastAudio == audio'.trace[Len(audio'.trace)]

\* An event of the kind has been handled.
Handles(a, op) == \E k \in 1..Len(a.trace) : a.trace[k].op = op

\* What holds of every sequence of calls and events: at most one audio element
\* is created, data is non-null exactly when loaded is true, a load() while the
\* first is in flight returns the promise in flight and creates nothing, and a
\* play() before the audio is loaded returns a resolved promise and plays nothing.
SingleFlight ==
    /\ Len(audio'.elements) <= 1
    /\ (audio'.data /= <<>>) <=> audio'.loaded
    /\ (AudioStep /\ LastAudio.op = "load") =>
          /\ audio.elements = <<>> =>
                /\ Len(audio'.elements) = 1
                /\ LastAudio.ret = "_loadingPromise" /\ LastAudio.promise = 1
          /\ (audio.elements /= <<>> /\ ~Handles(audio, "canplaythrough")
                                     /\ ~Handles(audio, "error")) =>
                /\ LastAudio.ret = "_loadingPromise" /\ LastAudio.promise = 1
                /\ audio'.elements = audio.elements
                /\ audio.elements[1].outer = "pending"
    /\ (AudioStep /\ LastAudio.op = "play" /\ ~audio.loaded) =>
          /\ LastAudio.ret = "Promise.resolve()"
          /\ audio'.played = audio.played

\* load() returns the promise of the one element, which has been rejected.
ReturnsRejected ==
    /\ LastAudio.ret = "_loadingPromise" /\ LastAudio.promise = 1
    /\ audio.elements[1].inner = "rejected"
    /\ audio'.elements = audio.elements

\* C26 as stated: single flight as above; a load() after a canplaythrough
\* event returns a resolved promise, and a load() after an error event returns
\* the rejected promise of the first load().
C26_NeverRetried ==
    [][ /\ SingleFlight
        /\ (AudioStep /\ LastAudio.op = "load") =>
              /\ Handles(audio, "canplaythrough") => LastAudio.ret = "Promise.resolve()"
              /\ Handles(audio, "error") => ReturnsRejected ]_vars

\* C26 amended: single flight as above; a load() after a canplaythrough event
\* returns a resolved promise, whether or not there was an error event, and a
\* load() after an error event and no canplaythrough event returns the rejected
\* promise of the first load().
C26_SingleFlightLoad ==
    [][ /\ SingleFlight
        /\ (AudioStep /\ LastAudio.op = "load") =>
              /\ Handles(audio, "canplaythrough") =>
                    /\ LastAudio.ret = "Promise.resolve()"
                    /\ audio'.elements = audio.elements
              /\ (Handles(audio, "error") /\ ~Handles(audio, "canplaythrough")) =>
                    ReturnsRejected ]_vars

\* A second load() after an error: it has returned the promise of the first,
\* which is rejected, and there is one element.
C26_Witness ==
    /\ Len(audio.trace) >= 3
    /\ audio.trace[1].op = "load"
    /\ Handles(audio, "error")
    /\ ~audio.loaded
    /\ audio.trace[Len(audio.trace)] =
          [op |-> "load", ret |-> "_loadingPromise", promise |-> 1]
    /\ Len(audio.elements) = 1
    /\ audio.elements[1].outer = "rejected"

\* C27: the index of an animation with frames is in 0..frames.length-1; an
\* update with the timer past its target (delta() > 0) advances the index by
\* one, from the last frame to 0, sets the timer to the duration of the new
\* frame and calls the onFrame of that frame, if it has one, once; an update
\* with the timer not past its target changes neither the index nor the timer
\* and calls nothing; restart sets the index to 0, calls nothing and leaves the
\* timer as it is.
C27_FrameStepping ==
    [][ animation' /= <<>> =>
          LET next == animation'[1]
              n    == Len(next.frames)
              onFrames == {k \in 1..Len(next.calls) : next.calls[k].call = "onFrame"}
              sets == {k \in 1..Len(next.calls) : next.calls[k].call = "timer.set"}
          IN  /\ n > 0
              /\ next.currentFrameIndex \in 0..(n - 1)
              /\ animation /= <<>> =>
                    LET an == animation[1]
                    IN  /\ next.frames = an.frames
                        /\ (next.op = "update" /\ an.timer.delta > 0) =>
                              LET frame == next.frames[next.currentFrameIndex + 1]
                              IN  /\ next.currentFrameIndex =
                                        (an.currentFrameIndex + 1) % n
                                  /\ next.timer.delta = 0 - frame.duration
                                  /\ next.timer.isEnabled = an.timer.isEnabled
                                  /\ Cardinality(sets) = 1
                                  /\ \A k \in sets : next.calls[k].arg = frame.duration
                                  /\ Cardinality(onFrames) = IF frame.onFrame THEN 1 ELSE 0
                                  /\ \A k \in onFrames :
                                        next.calls[k].arg = next.currentFrameIndex
                        /\ (next.op = "update" /\ an.timer.delta <= 0) =>
                              /\ next.currentFrameIndex = an.currentFrameIndex
                              /\ next.timer = an.timer
                              /\ next.calls = <<>>
                        /\ next.op = "restart" =>
                              /\ next.currentFrameIndex = 0
                              /\ next.timer = an.timer
                              /\ next.calls = <<>> ]_vars

\* An update has taken an animation of several frames from its last frame to
\* the first, set the timer and called the onFrame of the first frame.
C27_Witness ==
    /\ animation /= <<>>
    /\ Len(animation[1].frames) >= 2
    /\ animation[1].op = "update"
    /\ animation[1].currentFrameIndex = 0
    /\ animation[1].timer.delta = 0 - animation[1].frames[1].duration
    /\ \E k \in 1..Len(animation[1].calls) : animation[1].calls[k].call = "onFrame"

====
